---- MODULE Spec2Model ----
(***************************************************************************)
(* Buyer Request Workflow API (src/main.py): a FastAPI service over one    *)
(* SQLite file.  The state is the content of the six tables, the clock,    *)
(* the handlers that are between their reads and their write transaction,  *)
(* and the last HTTP response.                                             *)
(*                                                                         *)
(* Transactions.  get_db() opens a connection of its own per call and      *)
(* commits on normal exit, rolls back on an exception.  Python's sqlite3   *)
(* (default isolation_level) issues BEGIN only before the first            *)
(* INSERT/UPDATE; a SELECT before it runs in autocommit and holds no lock  *)
(* once it is fetched.  From the first write to the commit the connection  *)
(* holds SQLite's RESERVED lock, so no other connection writes in between  *)
(* and none sees the uncommitted rows.  A handler is therefore modelled    *)
(* as: one step for the token lookup, the role check and the handler's     *)
(* SELECTs that come before its first write (the rows they read are never  *)
(* updated or deleted, except request_items.status), and one step for the  *)
(* write transaction up to the commit (a writer that waits for the lock    *)
(* longer than sqlite3's timeout fails with "database is locked", a 500    *)
(* with no effect, which is not modelled).  Handlers with no SELECT before *)
(* the first write are a single step.  A server process is a "worker";     *)
(* several may serve the same database file.                               *)
(*                                                                         *)
(* Two specifications.  Spec is the whole service while the clock stands   *)
(* still (all timestamps equal, no token expires).  SpecClock is the       *)
(* identity provider as time passes: login with every shape of factory id, *)
(* the clock, and the two read operations that resolve a token.            *)
(*                                                                         *)
(* Ids.  generate_id() and secrets.token_urlsafe() draw random strings;    *)
(* the model numbers the rows of a table 1, 2, ... in insertion order and  *)
(* uses the row number as the id (a fresh id per insert).                  *)
(*                                                                         *)
(* Responses.  resp holds the response of the call that has just returned  *)
(* (operation, status code, detail); Deliver hands it to the client and    *)
(* empties the slot, and a call starts or commits only when the slot is    *)
(* empty.  This orders only the observation of responses: every sequence   *)
(* of database states is still possible.                                   *)
(*                                                                         *)
(* Time.  datetime.utcnow() is the variable now, in hours; isoformat() /   *)
(* fromisoformat() round-trip a naive datetime exactly and the ISO text    *)
(* orders as the instants do, so timestamps are kept as numbers.           *)
(***************************************************************************)
EXTENDS Integers, Sequences, FiniteSets, TLC

\* ---------------------------------------------------------------- bounds
MaxTime == 48
MaxSessions == 3
MaxEvidence == 1
MaxVersions == 3
MaxRequests == 2
\* rows of request_items, over all requests
MaxItems == 2
MaxAudit == 6
NumWorkers == 2

\* ------------------------------------------------------------- constants
\* timedelta(hours=24)
TOKEN_LIFETIME == 24

\* Python's None in a TEXT column / Optional[str] field.
NULL == "NULL"
\* NULL in an id column (ids are row numbers >= 1).
NoId == 0

Users == {"u1"}
Factories == {"F1", "F2"}
\* LoginRequest.factoryId: absent, the empty string, or a factory id.
FactoryIdInputs == {NULL, ""} \cup Factories
\* The same without the empty string, which login takes for an absent id when
\* the role is factory and stores on a buyer session, where nothing reads it.
PlainFactoryIdInputs == {NULL} \cup Factories
\* EvidenceCreate.docType; the items of a request ask for "A" and "B"
\* (ItemDocType), so an evidence meets items of its type and of another.
DocTypes == {"A"}
\* The clock is observed at these distances.
ClockSteps == {TOKEN_LIFETIME}
Workers == 1..NumWorkers

\* Authorization header: absent or not "Bearer ...", or "Bearer <token>" with
\* <token> a number; a number that is not a row of auth_tokens is a token
\* that is not on record.
NoAuth == 0
AuthHeaders == 0..MaxSessions

\* class Role
BUYER == "buyer"
FACTORY == "factory"
Roles == {BUYER, FACTORY}

VARIABLES
    now,                \* datetime.utcnow(), hours
    auth_tokens,        \* table auth_tokens; the token is the row number
    evidence,           \* table evidence
    evidence_versions,  \* table evidence_versions
    requests,           \* table requests
    request_items,      \* table request_items
    audit_log,          \* table audit_log
    inflight,           \* per worker: the handler between its reads and its writes
    resp,               \* the last HTTP response: operation, status code, detail
    okCount             \* number of mutating operations that returned 200

db == <<auth_tokens, evidence, evidence_versions, requests, request_items, audit_log>>
vars == <<now, auth_tokens, evidence, evidence_versions, requests, request_items,
          audit_log, inflight, resp, okCount>>

Idle == [op |-> "idle"]

\* generate_id(prefix): the id of row n as the audit log's object_id text, the
\* prefix ("E", "V", "R", "I") followed by the random part.  Inside the tables
\* the model uses the row number n alone.
ObjectId(prefix, n) == <<prefix, n>>

\* Python truthiness of an Optional[str]: None and "" are falsy.
Truthy(s) == s # NULL /\ s # ""

\* An HTTP response: operation, status code, detail of the HTTPException, and
\* the body where the model needs it: a set (the requests of
\* GET /factory/requests, the itemIds of POST /requests) and a list (the
\* entries of GET /audit).
NoBody == {}
NoEntries == <<>>
ResponseWith(op, code, detail, body) ==
    [op |-> op, code |-> code, detail |-> detail, body |-> body,
     entries |-> NoEntries]
Response(op, code, detail) == ResponseWith(op, code, detail, NoBody)
NoResponse == Response("none", 0, "")

\* An audit write that overwrites the newest record.
log_audit_ReplaceLast(log, actor_user_id, actor_role, action, object_type, object_id, metadata) ==
    LET rec == [id |-> Len(log) + 1,
                timestamp |-> now,
                actor_user_id |-> actor_user_id,
                actor_role |-> actor_role,
                action |-> action,
                object_type |-> object_type,
                object_id |-> object_id,
                metadata |-> metadata]
    IN  IF log = <<>> THEN <<rec>> ELSE [log EXCEPT ![Len(log)] = rec]

\* An audit write that is dropped.
log_audit_Dropped(log, actor_user_id, actor_role, action, object_type, object_id, metadata) ==
    log

\* log_audit: one INSERT into audit_log; id is AUTOINCREMENT.
log_audit(log, actor_user_id, actor_role, action, object_type, object_id, metadata) ==
    Append(log, [id |-> Len(log) + 1,
                 timestamp |-> now,
                 actor_user_id |-> actor_user_id,
                 actor_role |-> actor_role,
                 action |-> action,
                 object_type |-> object_type,
                 object_id |-> object_id,
                 metadata |-> metadata])

\* The comparison of get_current_user: the token is expired when this holds.
TokenExpired(expires_at, t) == expires_at < t

\* A lookup that takes a token that is not on record for a buyer's.
get_current_user_UnknownAsBuyer(h) ==
    IF h = NoAuth
    THEN [code |-> 401, detail |-> "Missing or invalid authorization header"]
    ELSE IF h \notin DOMAIN auth_tokens
    THEN [code |-> 200, detail |-> "", userId |-> "u1", role |-> BUYER,
          factoryId |-> NULL]
    ELSE IF TokenExpired(auth_tokens[h].expires_at, now)
    THEN [code |-> 401, detail |-> "Token expired"]
    ELSE [code |-> 200, detail |-> "",
          userId |-> auth_tokens[h].user_id,
          role |-> auth_tokens[h].role,
          factoryId |-> auth_tokens[h].factory_id]

\* get_current_user: the user of an Authorization header, or the 401.
get_current_user(h) ==
    IF h = NoAuth
    THEN [code |-> 401, detail |-> "Missing or invalid authorization header"]
    ELSE IF h \notin DOMAIN auth_tokens
    THEN [code |-> 401, detail |-> "Invalid token"]
    ELSE IF TokenExpired(auth_tokens[h].expires_at, now)
    THEN [code |-> 401, detail |-> "Token expired"]
    ELSE [code |-> 200, detail |-> "",
          userId |-> auth_tokens[h].user_id,
          role |-> auth_tokens[h].role,
          factoryId |-> auth_tokens[h].factory_id]

\* f"Requires {required_role.value} role"
RoleDetail(required_role) ==
    IF required_role = BUYER THEN "Requires buyer role" ELSE "Requires factory role"

\* A dependency that resolves the user and checks no role.
require_role_Unchecked(required_role, h) == get_current_user(h)

\* require_role(required_role): get_current_user, then the role check.
require_role(required_role, h) ==
    LET user == get_current_user(h) IN
    IF user.code # 200 THEN user
    ELSE IF user.role # required_role
    THEN [code |-> 403, detail |-> RoleDetail(required_role)]
    ELSE user

\* Worker w takes the next call: the workers are interchangeable, and the
\* call goes to the idle one with the lowest number.
TakesCall(w) ==
    /\ inflight[w] = Idle
    /\ \A x \in Workers : x < w => inflight[x] # Idle

\* Number of handlers between their reads and their write transaction.
InFlight == Cardinality({w \in Workers : inflight[w] # Idle})

\* Room for one more audit record (and one more successful operation).
AuditRoom == Len(audit_log) + InFlight < MaxAudit

Init ==
    /\ now = 0
    /\ auth_tokens = <<>>
    /\ evidence = <<>>
    /\ evidence_versions = <<>>
    /\ requests = <<>>
    /\ request_items = <<>>
    /\ audit_log = <<>>
    /\ inflight = [w \in Workers |-> Idle]
    /\ resp = NoResponse
    /\ okCount = 0

\* The clock advances.
Tick ==
    /\ resp = NoResponse
    /\ \E d \in ClockSteps :
          /\ now + d <= MaxTime
          /\ now' = now + d
    /\ UNCHANGED <<db, inflight, resp, okCount>>

\* A validation that has lost the check of the buyer role.
LoginValidation_NoBuyerCheck(role, factoryId) ==
    IF role = FACTORY /\ ~Truthy(factoryId) THEN "Factory role requires factoryId"
    ELSE ""

\* login's two validations, in the code's order: the 400 detail, or "" when
\* the request passes.
LoginValidation(role, factoryId) ==
    IF role = FACTORY /\ ~Truthy(factoryId) THEN "Factory role requires factoryId"
    ELSE IF role = BUYER /\ Truthy(factoryId) THEN "Buyer role should not have factoryId"
    ELSE ""

\* The object_id login writes to the audit log: the text "N/A".
NotApplicable == <<"N/A", 0>>
LoginAuditObjectId(token) == NotApplicable

\* A variant of the INSERT in which a login also moves the expiry of the
\* sessions the same user already holds to the new session's expiry.
SessionsAfterLogin_Renewing(tokens, row) ==
    Append([t \in DOMAIN tokens |->
               IF tokens[t].user_id = row.user_id
               THEN [tokens[t] EXCEPT !.expires_at = row.expires_at]
               ELSE tokens[t]],
           row)

\* INSERT INTO auth_tokens: login adds one row for the new token and touches
\* no other row of the table.
SessionsAfterLogin(tokens, row) == Append(tokens, row)

\* POST /auth/login
login(userId, role, factoryId) ==
    LET bad == LoginValidation(role, factoryId) IN
    \/ /\ resp = NoResponse
       /\ bad # ""
       /\ resp' = Response("login", 400, bad)
       /\ UNCHANGED <<now, db, inflight, okCount>>
    \/ /\ resp = NoResponse
       /\ bad = ""
       /\ Len(auth_tokens) < MaxSessions
       /\ AuditRoom
       /\ LET token == Len(auth_tokens) + 1 IN
          /\ auth_tokens' = SessionsAfterLogin(auth_tokens,
                 [user_id |-> userId, role |-> role, factory_id |-> factoryId,
                  created_at |-> now, expires_at |-> now + TOKEN_LIFETIME])
          /\ audit_log' = log_audit(audit_log, userId, role, "LOGIN", "Request",
                 LoginAuditObjectId(token),
                 [userId |-> userId, role |-> role, factoryId |-> factoryId])
       /\ resp' = Response("login", 200, "")
       /\ okCount' = okCount + 1
       /\ UNCHANGED <<now, evidence, evidence_versions, requests, request_items, inflight>>

\* POST /evidence
create_evidence(h, docType) ==
    LET user == require_role(FACTORY, h) IN
    \/ /\ resp = NoResponse
       /\ user.code # 200
       /\ resp' = Response("create_evidence", user.code, user.detail)
       /\ UNCHANGED <<now, db, inflight, okCount>>
    \/ /\ resp = NoResponse
       /\ user.code = 200
       /\ Len(evidence) < MaxEvidence
       /\ Len(evidence_versions) + InFlight < MaxVersions
       /\ AuditRoom
       /\ LET evidence_id == Len(evidence) + 1
              version_id == Len(evidence_versions) + 1 IN
          /\ evidence' = Append(evidence,
                 [factory_id |-> user.factoryId, doc_type |-> docType])
          /\ evidence_versions' = Append(evidence_versions,
                 [evidence_id |-> evidence_id, version_number |-> 1])
          /\ audit_log' = log_audit(audit_log, user.userId, user.role,
                 "CREATE_EVIDENCE", "Evidence", ObjectId("E", evidence_id),
                 [factoryId |-> user.factoryId, docType |-> docType,
                  versionId |-> version_id])
       /\ resp' = Response("create_evidence", 200, "")
       /\ okCount' = okCount + 1
       /\ UNCHANGED <<now, auth_tokens, requests, request_items, inflight>>

\* A variant of the checks that lets a call through when the evidence id
\* is unknown.
add_version_checks_UnknownEvidence(user, evidence_id) ==
    IF evidence_id \notin DOMAIN evidence
    THEN [code |-> 200, detail |-> ""]
    ELSE IF evidence[evidence_id].factory_id # user.factoryId
    THEN [code |-> 403, detail |-> "Cannot add version to other factory's evidence"]
    ELSE [code |-> 200, detail |-> ""]

\* The checks of add_evidence_version before it reads MAX(version_number).
add_version_checks(user, evidence_id) ==
    IF evidence_id \notin DOMAIN evidence
    THEN [code |-> 404, detail |-> "Evidence not found"]
    ELSE IF evidence[evidence_id].factory_id # user.factoryId
    THEN [code |-> 403, detail |-> "Cannot add version to other factory's evidence"]
    ELSE [code |-> 200, detail |-> ""]

\* SELECT MAX(version_number) ... WHERE evidence_id = ?  (NULL, read as 0,
\* when there is no row), plus one.
NextVersionNumber(evidence_id) ==
    LET nums == {evidence_versions[v].version_number :
                    v \in {x \in DOMAIN evidence_versions :
                              evidence_versions[x].evidence_id = evidence_id}}
        max_version == IF nums = {} THEN 0
                       ELSE CHOOSE n \in nums : \A m \in nums : m <= n
    IN max_version + 1

\* The outcome of add_evidence_version's dependency and checks: the error, or
\* the user with code 200.
AddVersionResult(h, evidence_id) ==
    LET user == require_role(FACTORY, h) IN
    IF user.code # 200 THEN user
    ELSE IF add_version_checks(user, evidence_id).code # 200
    THEN add_version_checks(user, evidence_id)
    ELSE user

\* POST /evidence/{evidence_id}/versions, a call that is refused.
add_evidence_version_rejected(h, evidence_id) ==
    LET chk == AddVersionResult(h, evidence_id) IN
    /\ resp = NoResponse
    /\ chk.code # 200
    /\ resp' = Response("add_evidence_version", chk.code, chk.detail)
    /\ UNCHANGED <<now, db, inflight, okCount>>

\* POST /evidence/{evidence_id}/versions, up to the read of MAX(version_number):
\* no transaction is open yet.
AddVersionRead(w, h, evidence_id) ==
    LET user == AddVersionResult(h, evidence_id) IN
    /\ resp = NoResponse
    /\ TakesCall(w)
    /\ user.code = 200
    /\ Len(evidence_versions) + InFlight < MaxVersions
    /\ AuditRoom
    /\ inflight' = [inflight EXCEPT ![w] =
           [op |-> "add_evidence_version", user |-> user,
            evidence_id |-> evidence_id,
            new_version_number |-> NextVersionNumber(evidence_id)]]
    /\ UNCHANGED <<now, db, resp, okCount>>

\* add_evidence_version from its INSERT to the commit.
AddVersionWrite(w) ==
    LET c == inflight[w] IN
    /\ resp = NoResponse
    /\ c.op = "add_evidence_version"
    /\ LET version_id == Len(evidence_versions) + 1 IN
       /\ evidence_versions' = Append(evidence_versions,
              [evidence_id |-> c.evidence_id,
               version_number |-> c.new_version_number])
       /\ audit_log' = log_audit(audit_log, c.user.userId, c.user.role,
              "ADD_VERSION", "Version", ObjectId("V", version_id),
              [factoryId |-> c.user.factoryId, evidenceId |-> c.evidence_id,
               versionNumber |-> c.new_version_number])
    /\ inflight' = [inflight EXCEPT ![w] = Idle]
    /\ resp' = Response("add_evidence_version", 200, "")
    /\ okCount' = okCount + 1
    /\ UNCHANGED <<now, auth_tokens, evidence, requests, request_items>>

\* RequestCreate.items: a list of n items; item i asks for docType ItemDocType(i).
ItemDocType(i) == IF i % 2 = 1 THEN "A" ELSE "B"
ItemLists == {[i \in 1..n |-> [docType |-> ItemDocType(i)]] : n \in 0..MaxItems}

\* A request that is born completed.
NewRequestStatus_Completed(items) == "completed"

\* The status create_request stores on the new request.
NewRequestStatus(items) == "pending"

\* POST /requests
create_request(h, factoryId, items) ==
    LET user == require_role(BUYER, h) IN
    \/ /\ resp = NoResponse
       /\ user.code # 200
       /\ resp' = Response("create_request", user.code, user.detail)
       /\ UNCHANGED <<now, db, inflight, okCount>>
    \/ /\ resp = NoResponse
       /\ user.code = 200
       /\ Len(requests) < MaxRequests
       /\ Len(request_items) + Len(items) <= MaxItems
       /\ AuditRoom
       /\ LET request_id == Len(requests) + 1 IN
          /\ requests' = Append(requests,
                 [buyer_id |-> user.userId, factory_id |-> factoryId,
                  status |-> NewRequestStatus(items)])
          /\ request_items' = request_items \o
                 [i \in 1..Len(items) |->
                     [request_id |-> request_id, doc_type |-> items[i].docType,
                      status |-> "pending", evidence_id |-> NoId,
                      version_id |-> NoId, fulfilled_at |-> NULL]]
          /\ audit_log' = log_audit(audit_log, user.userId, user.role,
                 "CREATE_REQUEST", "Request", ObjectId("R", request_id),
                 [buyerId |-> user.userId, factoryId |-> factoryId,
                  itemCount |-> Len(items), items |-> items])
       /\ resp' = ResponseWith("create_request", 200, "",
                    {Len(request_items) + i : i \in 1..Len(items)})
       /\ okCount' = okCount + 1
       /\ UNCHANGED <<now, auth_tokens, evidence, evidence_versions, inflight>>

\* A read operation that leaves a record of itself in the audit log.
AuditLogAfterRead_Logged(user, op) ==
    IF user.code = 200 /\ AuditRoom
    THEN log_audit(audit_log, user.userId, user.role, op, "Request",
                   NotApplicable, [userId |-> user.userId])
    ELSE audit_log

\* The audit log after GET /factory/requests or GET /audit: neither handler
\* calls log_audit or issues any statement other than SELECT.
AuditLogAfterRead(user, op) == audit_log

\* GET /factory/requests: the body of the 200 response for factory f, the
\* requests addressed to f, each with the rows of request_items that name it
\* (as sets: the order of the list is not modelled).
FactoryRequestRows_Unfiltered(f) == DOMAIN requests
FactoryRequestRows(f) == {r \in DOMAIN requests : requests[r].factory_id = f}
ItemRowsOf(r) == {i \in DOMAIN request_items : request_items[i].request_id = r}
FactoryRequests(f) ==
    {[requestId |-> r, buyerId |-> requests[r].buyer_id,
      factoryId |-> requests[r].factory_id, status |-> requests[r].status,
      items |-> {[id |-> i, doc_type |-> request_items[i].doc_type,
                  status |-> request_items[i].status,
                  evidence_id |-> request_items[i].evidence_id,
                  version_id |-> request_items[i].version_id,
                  fulfilled_at |-> request_items[i].fulfilled_at] : i \in ItemRowsOf(r)}]
       : r \in FactoryRequestRows(f)}

\* GET /factory/requests
get_factory_requests(h) ==
    LET user == require_role(FACTORY, h) IN
    /\ resp = NoResponse
    /\ resp' = ResponseWith("get_factory_requests", user.code, user.detail,
                 IF user.code = 200 THEN FactoryRequests(user.factoryId) ELSE NoBody)
    /\ audit_log' = AuditLogAfterRead(user, "get_factory_requests")
    /\ UNCHANGED <<now, auth_tokens, evidence, evidence_versions, requests,
                   request_items, inflight, okCount>>

\* The checks of fulfill_request_item without the evidence ownership check.
fulfill_checks_NoEvidenceOwner(user, request_id, item_id, evidenceId, versionId) ==
    IF request_id \notin DOMAIN requests
    THEN [code |-> 404, detail |-> "Request not found"]
    ELSE IF requests[request_id].factory_id # user.factoryId
    THEN [code |-> 403, detail |-> "Cannot fulfill other factory's requests"]
    ELSE IF item_id \notin DOMAIN request_items
            \/ request_items[item_id].request_id # request_id
    THEN [code |-> 404, detail |-> "Request item not found"]
    ELSE IF evidenceId \notin DOMAIN evidence
    THEN [code |-> 404, detail |-> "Evidence not found"]
    ELSE IF versionId \notin DOMAIN evidence_versions
            \/ evidence_versions[versionId].evidence_id # evidenceId
    THEN [code |-> 404, detail |-> "Evidence version not found"]
    ELSE [code |-> 200, detail |-> ""]

\* Checks that look at the evidence before they look for the item.
fulfill_checks_EvidenceFirst(user, request_id, item_id, evidenceId, versionId) ==
    IF request_id \notin DOMAIN requests
    THEN [code |-> 404, detail |-> "Request not found"]
    ELSE IF requests[request_id].factory_id # user.factoryId
    THEN [code |-> 403, detail |-> "Cannot fulfill other factory's requests"]
    ELSE IF evidenceId \notin DOMAIN evidence
    THEN [code |-> 404, detail |-> "Evidence not found"]
    ELSE IF evidence[evidenceId].factory_id # user.factoryId
    THEN [code |-> 403, detail |-> "Cannot use other factory's evidence"]
    ELSE IF item_id \notin DOMAIN request_items
            \/ request_items[item_id].request_id # request_id
    THEN [code |-> 404, detail |-> "Request item not found"]
    ELSE IF versionId \notin DOMAIN evidence_versions
            \/ evidence_versions[versionId].evidence_id # evidenceId
    THEN [code |-> 404, detail |-> "Evidence version not found"]
    ELSE [code |-> 200, detail |-> ""]

\* A variant of the checks without the last one, on the version.
fulfill_checks_NoVersionCheck(user, request_id, item_id, evidenceId, versionId) ==
    IF request_id \notin DOMAIN requests
    THEN [code |-> 404, detail |-> "Request not found"]
    ELSE IF requests[request_id].factory_id # user.factoryId
    THEN [code |-> 403, detail |-> "Cannot fulfill other factory's requests"]
    ELSE IF item_id \notin DOMAIN request_items
            \/ request_items[item_id].request_id # request_id
    THEN [code |-> 404, detail |-> "Request item not found"]
    ELSE IF evidenceId \notin DOMAIN evidence
    THEN [code |-> 404, detail |-> "Evidence not found"]
    ELSE IF evidence[evidenceId].factory_id # user.factoryId
    THEN [code |-> 403, detail |-> "Cannot use other factory's evidence"]
    ELSE [code |-> 200, detail |-> ""]

\* A variant of the checks with a seventh one: the evidence's doc_type must
\* equal the item's.
fulfill_checks_DocTypeMatch(user, request_id, item_id, evidenceId, versionId) ==
    IF request_id \notin DOMAIN requests
    THEN [code |-> 404, detail |-> "Request not found"]
    ELSE IF requests[request_id].factory_id # user.factoryId
    THEN [code |-> 403, detail |-> "Cannot fulfill other factory's requests"]
    ELSE IF item_id \notin DOMAIN request_items
            \/ request_items[item_id].request_id # request_id
    THEN [code |-> 404, detail |-> "Request item not found"]
    ELSE IF evidenceId \notin DOMAIN evidence
    THEN [code |-> 404, detail |-> "Evidence not found"]
    ELSE IF evidence[evidenceId].factory_id # user.factoryId
    THEN [code |-> 403, detail |-> "Cannot use other factory's evidence"]
    ELSE IF versionId \notin DOMAIN evidence_versions
            \/ evidence_versions[versionId].evidence_id # evidenceId
    THEN [code |-> 404, detail |-> "Evidence version not found"]
    ELSE IF evidence[evidenceId].doc_type # request_items[item_id].doc_type
    THEN [code |-> 400, detail |-> "Document type mismatch"]
    ELSE [code |-> 200, detail |-> ""]

\* The checks of fulfill_request_item, in the code's order.
fulfill_checks(user, request_id, item_id, evidenceId, versionId) ==
    IF request_id \notin DOMAIN requests
    THEN [code |-> 404, detail |-> "Request not found"]
    ELSE IF requests[request_id].factory_id # user.factoryId
    THEN [code |-> 403, detail |-> "Cannot fulfill other factory's requests"]
    ELSE IF item_id \notin DOMAIN request_items
            \/ request_items[item_id].request_id # request_id
    THEN [code |-> 404, detail |-> "Request item not found"]
    ELSE IF evidenceId \notin DOMAIN evidence
    THEN [code |-> 404, detail |-> "Evidence not found"]
    ELSE IF evidence[evidenceId].factory_id # user.factoryId
    THEN [code |-> 403, detail |-> "Cannot use other factory's evidence"]
    ELSE IF versionId \notin DOMAIN evidence_versions
            \/ evidence_versions[versionId].evidence_id # evidenceId
    THEN [code |-> 404, detail |-> "Evidence version not found"]
    ELSE [code |-> 200, detail |-> ""]

\* The row fulfill_request_item's UPDATE leaves for the item.
FulfilledItem_Reopens(item, evidenceId, versionId) ==
    [item EXCEPT !.status = IF @ = "fulfilled" THEN "pending" ELSE "fulfilled",
                 !.evidence_id = evidenceId, !.version_id = versionId,
                 !.fulfilled_at = now]
FulfilledItem_NoTimestamp(item, evidenceId, versionId) ==
    [item EXCEPT !.status = "fulfilled", !.evidence_id = evidenceId,
                 !.version_id = versionId]
FulfilledItem_NoAttachment(item, evidenceId, versionId) ==
    [item EXCEPT !.status = "fulfilled", !.fulfilled_at = now]

\* UPDATE request_items SET status = 'fulfilled', evidence_id, version_id,
\* fulfilled_at
FulfilledItem(item, evidenceId, versionId) ==
    [item EXCEPT !.status = "fulfilled", !.evidence_id = evidenceId,
                 !.version_id = versionId, !.fulfilled_at = now]

\* A refusal that comes after the item UPDATE and is committed with it.
ItemsAfterRejectedFulfill_Dirty(item_id, evidenceId, versionId) ==
    IF item_id \in DOMAIN request_items
    THEN [request_items EXCEPT ![item_id] = FulfilledItem(@, evidenceId, versionId)]
    ELSE request_items

\* What a refused fulfill_request_item leaves in request_items: no UPDATE was
\* issued before the HTTPException, and get_db rolls back.
ItemsAfterRejectedFulfill(item_id, evidenceId, versionId) == request_items

\* The outcome of fulfill_request_item's dependency and checks: the error, or
\* the user with code 200.
FulfillResult(h, request_id, item_id, evidenceId, versionId) ==
    LET user == require_role(FACTORY, h) IN
    IF user.code # 200 THEN user
    ELSE IF fulfill_checks(user, request_id, item_id, evidenceId, versionId).code # 200
    THEN fulfill_checks(user, request_id, item_id, evidenceId, versionId)
    ELSE user

\* POST /requests/{request_id}/items/{item_id}/fulfill, a call that is refused.
fulfill_request_item_rejected(h, request_id, item_id, evidenceId, versionId) ==
    LET chk == FulfillResult(h, request_id, item_id, evidenceId, versionId) IN
    /\ resp = NoResponse
    /\ chk.code # 200
    /\ resp' = Response("fulfill_request_item", chk.code, chk.detail)
    /\ request_items' = ItemsAfterRejectedFulfill(item_id, evidenceId, versionId)
    /\ UNCHANGED <<now, auth_tokens, evidence, evidence_versions, requests,
                   audit_log, inflight, okCount>>

\* fulfill_request_item up to its last SELECT: no transaction is open yet.
FulfillRead(w, h, request_id, item_id, evidenceId, versionId) ==
    LET user == FulfillResult(h, request_id, item_id, evidenceId, versionId) IN
    /\ resp = NoResponse
    /\ TakesCall(w)
    /\ user.code = 200
    /\ AuditRoom
    /\ inflight' = [inflight EXCEPT ![w] =
           [op |-> "fulfill_request_item", user |-> user,
            request_id |-> request_id, item_id |-> item_id,
            evidenceId |-> evidenceId, versionId |-> versionId,
            buyer_id |-> requests[request_id].buyer_id,
            previous_status |-> request_items[item_id].status,
            doc_type |-> request_items[item_id].doc_type]]
    /\ UNCHANGED <<now, db, resp, okCount>>

\* A status update that never completes a request.
StatusAfterFulfill_NeverCompletes(items, request_id, old_status) == old_status

\* A status update that reopens a completed request.
StatusAfterFulfill_Reopens(items, request_id, old_status) ==
    IF old_status = "completed" THEN "pending"
    ELSE IF \A i \in DOMAIN items :
               items[i].request_id = request_id => items[i].status = "fulfilled"
    THEN "completed" ELSE old_status

\* A status update that completes the request as soon as one item is fulfilled.
StatusAfterFulfill_AnyFulfilled(items, request_id, old_status) ==
    IF \E i \in DOMAIN items :
          items[i].request_id = request_id /\ items[i].status = "fulfilled"
    THEN "completed" ELSE old_status

\* The request's status after the item UPDATE: COUNT(*) against the number of
\* fulfilled items of the request, read inside the transaction.
StatusAfterFulfill(items, request_id, old_status) ==
    LET rows == {i \in DOMAIN items : items[i].request_id = request_id}
        total == Cardinality(rows)
        fulfilled == Cardinality({i \in rows : items[i].status = "fulfilled"})
    IN IF total = fulfilled THEN "completed" ELSE old_status

\* fulfill_request_item from its first UPDATE to the commit.
FulfillWrite(w) ==
    LET c == inflight[w] IN
    /\ resp = NoResponse
    /\ c.op = "fulfill_request_item"
    /\ LET items == [request_items EXCEPT ![c.item_id] =
                        FulfilledItem(@, c.evidenceId, c.versionId)] IN
       /\ request_items' = items
       /\ requests' = [requests EXCEPT ![c.request_id].status =
              StatusAfterFulfill(items, c.request_id, @)]
    /\ audit_log' = log_audit(audit_log, c.user.userId, c.user.role,
           "FULFILL_ITEM", "RequestItem", ObjectId("I", c.item_id),
           [factoryId |-> c.user.factoryId, buyerId |-> c.buyer_id,
            requestId |-> c.request_id, docType |-> c.doc_type,
            evidenceId |-> c.evidenceId, versionId |-> c.versionId,
            previousStatus |-> c.previous_status, newStatus |-> "fulfilled"])
    /\ inflight' = [inflight EXCEPT ![w] = Idle]
    /\ resp' = Response("fulfill_request_item", 200, "")
    /\ okCount' = okCount + 1
    /\ UNCHANGED <<now, auth_tokens, evidence, evidence_versions>>

\* ORDER BY timestamp DESC: the place of row k in the result.  SQLite sorts
\* the scanned rows with the order of the scan (the rowid, ascending) as the
\* last key, so rows with equal timestamps come oldest first.
AuditRank(log, k) ==
    1 + Cardinality({j \in DOMAIN log :
                        \/ log[j].timestamp > log[k].timestamp
                        \/ log[j].timestamp = log[k].timestamp /\ j < k})

\* SELECT ... FROM audit_log ORDER BY timestamp DESC
AuditRowsOrdered(log) ==
    [p \in 1..Len(log) |-> log[CHOOSE k \in DOMAIN log : AuditRank(log, k) = p]]

\* LIMIT ?: the first limit rows; a negative limit is no limit in SQLite.
LimitRows(rows, limit) ==
    IF limit < 0 \/ limit >= Len(rows) THEN rows ELSE SubSeq(rows, 1, limit)

\* AuditEntry(...) of a row.
AuditEntry(row) ==
    [id |-> row.id, timestamp |-> row.timestamp,
     actorUserId |-> row.actor_user_id, actorRole |-> row.actor_role,
     action |-> row.action, objectType |-> row.object_type,
     objectId |-> row.object_id, metadata |-> row.metadata]

\* The entries GET /audit?limit= returns.
AuditEntries(log, limit) ==
    LET rows == LimitRows(AuditRowsOrdered(log), limit)
    IN  [p \in 1..Len(rows) |-> AuditEntry(rows[p])]

\* limit: int = 100
DEFAULT_LIMIT == 100
Limits == {-1, 0, 1, 2, DEFAULT_LIMIT}

\* GET /audit
get_audit_log(h, limit) ==
    LET user == get_current_user(h) IN
    /\ resp = NoResponse
    /\ resp' = [Response("get_audit_log", user.code, user.detail) EXCEPT
                   !.entries = IF user.code = 200
                               THEN AuditEntries(audit_log, limit)
                               ELSE NoEntries]
    /\ audit_log' = AuditLogAfterRead(user, "get_audit_log")
    /\ UNCHANGED <<now, auth_tokens, evidence, evidence_versions, requests,
                   request_items, inflight, okCount>>

RequestIds == 1..MaxRequests
ItemIds == 1..MaxItems
EvidenceIds == 1..MaxEvidence
VersionIds == 1..MaxVersions

\* The client receives the response.
Deliver ==
    /\ resp # NoResponse
    /\ resp' = NoResponse
    /\ UNCHANGED <<now, db, inflight, okCount>>

\* The service while the clock stands still: every handler, no Tick.
Next ==
    \/ \E u \in Users, r \in Roles, f \in PlainFactoryIdInputs : login(u, r, f)
    \/ \E h \in AuthHeaders, d \in DocTypes : create_evidence(h, d)
    \/ \E h \in AuthHeaders, e \in EvidenceIds : add_evidence_version_rejected(h, e)
    \/ \E w \in Workers, h \in AuthHeaders, e \in EvidenceIds : AddVersionRead(w, h, e)
    \/ \E w \in Workers : AddVersionWrite(w)
    \/ \E h \in AuthHeaders, f \in Factories, l \in ItemLists : create_request(h, f, l)
    \/ \E h \in AuthHeaders : get_factory_requests(h)
    \/ \E h \in AuthHeaders, r \in RequestIds, i \in ItemIds, e \in EvidenceIds,
          v \in VersionIds : fulfill_request_item_rejected(h, r, i, e, v)
    \/ \E w \in Workers, h \in AuthHeaders, r \in RequestIds, i \in ItemIds,
          e \in EvidenceIds, v \in VersionIds : FulfillRead(w, h, r, i, e, v)
    \/ \E w \in Workers : FulfillWrite(w)
    \/ \E h \in AuthHeaders, l \in Limits : get_audit_log(h, l)
    \/ Deliver

Spec == Init /\ [][Next]_vars

\* The identity provider as the clock runs: login, the passing of time, and
\* the two read operations, which resolve a token and write nothing.
NextClock ==
    \/ Tick
    \/ \E u \in Users, r \in Roles, f \in FactoryIdInputs : login(u, r, f)
    \/ \E h \in AuthHeaders : get_factory_requests(h)
    \/ \E h \in AuthHeaders, l \in Limits : get_audit_log(h, l)
    \/ Deliver

SpecClock == Init /\ [][NextClock]_vars

\* ------------------------------------------------------------------ claims

VersionRowsOf(e) ==
    {v \in DOMAIN evidence_versions : evidence_versions[v].evidence_id = e}

\* C1: for every evidence, in every reachable state, the version numbers of
\* its versions are exactly 1..(number of its versions), with no gap and no
\* repeat, whatever the interleaving of concurrent add_evidence_version calls.
C1_VersionNumbersContiguous ==
    \A e \in DOMAIN evidence :
        {evidence_versions[v].version_number : v \in VersionRowsOf(e)}
            = 1..Cardinality(VersionRowsOf(e))

ItemsOfRequest(r) ==
    {i \in DOMAIN request_items : request_items[i].request_id = r}

DerivedStatus(r) ==
    IF \A i \in ItemsOfRequest(r) : request_items[i].status = "fulfilled"
    THEN "completed" ELSE "pending"

\* C2 as stated: in every reachable state and for every request, whatever
\* list of items it was created with, the stored status is 'completed' iff
\* every item of the request is 'fulfilled', and 'pending' otherwise.
C2_StatusIffAllFulfilled ==
    \A r \in DOMAIN requests : requests[r].status = DerivedStatus(r)

\* C2 amended: in every reachable state and for every request that has at
\* least one item, the stored status is 'completed' iff every item of the
\* request is 'fulfilled', and 'pending' otherwise.
C2_StatusIffAllFulfilled_NonEmpty ==
    \A r \in DOMAIN requests :
        ItemsOfRequest(r) # {} => requests[r].status = DerivedStatus(r)

\* A two-item request right after the fulfillment of its last pending item.
C2_Witness ==
    /\ resp = Response("fulfill_request_item", 200, "")
    /\ \E r \in DOMAIN requests :
          /\ Cardinality(ItemsOfRequest(r)) = 2
          /\ \A i \in ItemsOfRequest(r) : request_items[i].status = "fulfilled"
          /\ requests[r].status = "completed"

\* C3: an item is fulfilled at most once: once an item is 'fulfilled', no step
\* changes its evidence id, version id or fulfillment timestamp, and no
\* further FULFILL_ITEM audit record is written for it.
C3_FulfilledAtMostOnce ==
    [][\A i \in DOMAIN request_items :
          request_items[i].status = "fulfilled" =>
             /\ request_items'[i] = request_items[i]
             /\ ~ /\ Len(audit_log') > Len(audit_log)
                  /\ audit_log'[Len(audit_log')].action = "FULFILL_ITEM"
                  /\ audit_log'[Len(audit_log')].object_id = ObjectId("I", i)]_vars

\* The header h resolves to an identity of the given role.
IsIdentity(h, role) ==
    get_current_user(h).code = 200 /\ get_current_user(h).role = role

\* This step is the call add_evidence_version(h, e) / fulfill_request_item(...):
\* refused at once, or taken up by a worker.
AddVersionCall(h, e) ==
    \/ add_evidence_version_rejected(h, e)
    \/ \E w \in Workers : AddVersionRead(w, h, e)
FulfillCall(h, r, i, e, v) ==
    \/ fulfill_request_item_rejected(h, r, i, e, v)
    \/ \E w \in Workers : FulfillRead(w, h, r, i, e, v)

\* This step may be a call of operation op: it answers one, or a worker
\* takes a call up.
StepOf(op) == resp'.op = op \/ inflight' # inflight

\* This step answers operation op with the given code and changes no table,
\* starts no handler and counts no success.
Refused(op, code) ==
    /\ resp'.op = op
    /\ resp'.code = code
    /\ UNCHANGED <<db, inflight, okCount>>

\* This step answers operation op with an error.
AnswersError(op) == resp'.op = op /\ resp'.code # 200

\* This step is a worker taking up the call fulfill_request_item(...).
FulfillTakenUp(h, r, i, e, v) == \E w \in Workers : FulfillRead(w, h, r, i, e, v)

\* C4: cross-factory isolation on writes.  For a factory identity h: an
\* add_evidence_version call on evidence of another factory, a
\* fulfill_request_item call on a request addressed to another factory, and a
\* fulfill_request_item call on an item of its own request that names evidence
\* of another factory each end with 403 and leave every table unchanged.
C4_CrossFactoryWritesRefused ==
    /\ [](resp = NoResponse =>
            \A h \in AuthHeaders :
               IsIdentity(h, FACTORY) =>
                  LET F == get_current_user(h).factoryId IN
                  /\ \A e \in DOMAIN evidence :
                        evidence[e].factory_id # F => AddVersionResult(h, e).code = 403
                  /\ \A r \in DOMAIN requests, i \in ItemIds, e \in EvidenceIds,
                        v \in VersionIds :
                        (\/ requests[r].factory_id # F
                         \/ /\ i \in ItemsOfRequest(r)
                            /\ e \in DOMAIN evidence
                            /\ evidence[e].factory_id # F) =>
                           FulfillResult(h, r, i, e, v).code = 403)
    /\ [][\A h \in AuthHeaders :
             IsIdentity(h, FACTORY) =>
                LET F == get_current_user(h).factoryId IN
                /\ StepOf("add_evidence_version") =>
                      \A e \in DOMAIN evidence :
                         (evidence[e].factory_id # F /\ AddVersionCall(h, e)) =>
                            Refused("add_evidence_version", 403)
                /\ StepOf("fulfill_request_item") =>
                      \A r \in DOMAIN requests, i \in ItemIds, e \in EvidenceIds,
                         v \in VersionIds :
                         ((\/ requests[r].factory_id # F
                           \/ /\ i \in ItemsOfRequest(r)
                              /\ e \in DOMAIN evidence
                              /\ evidence[e].factory_id # F)
                          /\ FulfillCall(h, r, i, e, v)) =>
                            Refused("fulfill_request_item", 403)]_vars

\* A factory has just been refused the use of another factory's evidence on an
\* item of its own request.
C4_Witness ==
    resp = Response("fulfill_request_item", 403, "Cannot use other factory's evidence")

\* C5: GET /factory/requests by a factory identity of factory F returns exactly
\* the requests whose factory_id is F, each with exactly its own items.
C5_ListingExactlyOwn ==
    [][\A h \in AuthHeaders :
          (IsIdentity(h, FACTORY) /\ get_factory_requests(h)) =>
             LET F == get_current_user(h).factoryId IN
             /\ resp'.code = 200
             /\ {x.requestId : x \in resp'.body}
                   = {r \in DOMAIN requests : requests[r].factory_id = F}
             /\ \A x \in resp'.body :
                   /\ x.factoryId = F
                   /\ {it.id : it \in x.items}
                         = {i \in DOMAIN request_items :
                               request_items[i].request_id = x.requestId}
                   /\ \A it \in x.items :
                         /\ it.status = request_items[it.id].status
                         /\ it.doc_type = request_items[it.id].doc_type]_vars

\* A factory has just listed its requests while a request addressed to another
\* factory exists: the list is empty.
C5_Witness ==
    /\ resp.op = "get_factory_requests"
    /\ resp.code = 200
    /\ resp.body = {}
    /\ Len(requests) > 0

MutatingOps ==
    {"login", "create_evidence", "add_evidence_version", "create_request",
     "fulfill_request_item"}

\* This step is a mutating operation that returns 200.
SuccessfulMutation == resp' # resp /\ resp'.code = 200 /\ resp'.op \in MutatingOps

\* The id of the entity the step created or mutated; sessionId for a login.
MutatedEntity(sessionId) ==
    IF Len(auth_tokens') > Len(auth_tokens) THEN sessionId
    ELSE IF Len(evidence') > Len(evidence) THEN ObjectId("E", Len(evidence'))
    ELSE IF Len(evidence_versions') > Len(evidence_versions)
    THEN ObjectId("V", Len(evidence_versions'))
    ELSE IF Len(requests') > Len(requests) THEN ObjectId("R", Len(requests'))
    ELSE ObjectId("I", inflight[CHOOSE w \in Workers :
                           inflight[w] # Idle /\ inflight'[w] = Idle].item_id)

\* The step appends exactly one audit record, whose object_id is that of the
\* entity the step created or mutated.
OneAuditRecordFor(sessionId) ==
    /\ Len(audit_log') = Len(audit_log) + 1
    /\ SubSeq(audit_log', 1, Len(audit_log)) = audit_log
    /\ audit_log'[Len(audit_log')].object_id = MutatedEntity(sessionId)

\* C6 as stated: every successful mutating operation appends exactly one audit
\* record whose object_id is the id of the entity created or mutated, for
\* login the session (the token) it created; no other step writes the audit
\* log; so the log is as long as the number of successful mutating operations.
C6_AuditObjectIsEntity ==
    [][/\ SuccessfulMutation =>
             OneAuditRecordFor(ObjectId("token", Len(auth_tokens')))
       /\ ~SuccessfulMutation => audit_log' = audit_log
       /\ okCount' = Len(audit_log')]_vars

\* C6 amended: every successful mutating operation appends exactly one audit
\* record whose object_id is the id of the evidence, version, request or item
\* created or mutated, and for login the placeholder text "N/A"; no other step
\* writes the audit log; so the log is as long as the number of successful
\* mutating operations.
C6_OneAuditRecordPerMutation ==
    [][/\ SuccessfulMutation => OneAuditRecordFor(<<"N/A", 0>>)
       /\ ~SuccessfulMutation => audit_log' = audit_log
       /\ okCount' = Len(audit_log')]_vars

\* Every kind of mutating operation has succeeded and is in the audit log.
C6_Witness ==
    /\ \A a \in {"LOGIN", "CREATE_EVIDENCE", "ADD_VERSION", "CREATE_REQUEST",
                 "FULFILL_ITEM"} :
          \E k \in DOMAIN audit_log : audit_log[k].action = a
    /\ okCount = Len(audit_log)

\* C7: token lifecycle.  A session with expiry instant E resolves at every
\* time t < E and fails with 401 "Token expired" at every time t >= E,
\* the instant t = E included.
C7_TokenLifecycle ==
    \A t \in DOMAIN auth_tokens :
        IF now < auth_tokens[t].expires_at
        THEN get_current_user(t).code = 200
        ELSE get_current_user(t) = [code |-> 401, detail |-> "Token expired"]

\* C8: fulfill_request_item is all-or-nothing: a call of which any check fails
\* is not taken up but answered with an error, and the step that answers a
\* call with an error leaves the item rows, the request rows and the audit
\* log as they were.
C8_FulfillAllOrNothing ==
    /\ [][AnswersError("fulfill_request_item") =>
             UNCHANGED <<request_items, requests, audit_log>>]_vars
    /\ [][inflight' # inflight =>
             (\A h \in AuthHeaders, r \in RequestIds, i \in ItemIds,
                 e \in EvidenceIds, v \in VersionIds :
                 FulfillTakenUp(h, r, i, e, v) =>
                    /\ FulfillResult(h, r, i, e, v).code = 200
                    /\ UNCHANGED <<request_items, requests, audit_log>>)]_vars

\* A call has just failed on the last check, the version, for an existing item
\* and evidence of the caller.
C8_Witness ==
    resp = Response("fulfill_request_item", 404, "Evidence version not found")

\* Python's "not factoryId": no factory id is None or the empty string.
HasFactoryId(f) == f # NULL /\ f # ""

\* C9: login refuses with 400 a factory-role request without a factory id and
\* a buyer-role request with one, creating no session and no audit record; so
\* every stored buyer session carries no factory id and every stored factory
\* session carries a non-empty one.
C9_LoginPairing ==
    [][/\ \A u \in Users, f \in FactoryIdInputs :
             (\/ ~HasFactoryId(f) /\ login(u, FACTORY, f)
              \/ HasFactoryId(f) /\ login(u, BUYER, f)) =>
                /\ resp'.op = "login"
                /\ resp'.code = 400
                /\ UNCHANGED <<auth_tokens, audit_log>>
       /\ \A t \in DOMAIN auth_tokens' :
             /\ auth_tokens'[t].role = BUYER => ~HasFactoryId(auth_tokens'[t].factory_id)
             /\ auth_tokens'[t].role = FACTORY => HasFactoryId(auth_tokens'[t].factory_id)]_vars

\* A buyer login with a factory id has just been refused, with a buyer and a
\* factory session on record.
C9_Witness ==
    /\ resp = Response("login", 400, "Buyer role should not have factoryId")
    /\ \E t \in DOMAIN auth_tokens : auth_tokens[t].role = BUYER
    /\ \E t \in DOMAIN auth_tokens : auth_tokens[t].role = FACTORY

\* C10: role gate.  create_evidence, add_evidence_version,
\* get_factory_requests and fulfill_request_item called by a buyer identity,
\* and create_request called by a factory identity, end with 403 whatever
\* their other arguments, and leave every table unchanged.  For
\* fulfill_request_item: the outcome of the call is the 403 of the role
\* check, no such call is taken up, and the step that answers 403 changes
\* nothing.
C10_RoleGate ==
    /\ [](resp = NoResponse =>
             \A h \in AuthHeaders :
                IsIdentity(h, BUYER) =>
                   \A r \in RequestIds, i \in ItemIds, e \in EvidenceIds,
                      v \in VersionIds :
                      FulfillResult(h, r, i, e, v) =
                         [code |-> 403, detail |-> "Requires factory role"])
    /\ [][/\ (resp'.op = "fulfill_request_item" /\ resp'.code = 403) =>
                Refused("fulfill_request_item", 403)
          /\ inflight' # inflight =>
                (\A h \in AuthHeaders :
                    IsIdentity(h, BUYER) =>
                       \A r \in RequestIds, i \in ItemIds, e \in EvidenceIds,
                          v \in VersionIds : ~FulfillTakenUp(h, r, i, e, v))]_vars
    /\ [][\A h \in AuthHeaders :
             /\ IsIdentity(h, BUYER) =>
                   /\ StepOf("create_evidence") =>
                         \A d \in DocTypes :
                            create_evidence(h, d) => Refused("create_evidence", 403)
                   /\ StepOf("add_evidence_version") =>
                         \A e \in EvidenceIds :
                            AddVersionCall(h, e) => Refused("add_evidence_version", 403)
                   /\ StepOf("get_factory_requests") =>
                         (get_factory_requests(h) => Refused("get_factory_requests", 403))
             /\ (IsIdentity(h, FACTORY) /\ StepOf("create_request")) =>
                   \A f \in Factories, l \in ItemLists :
                      create_request(h, f, l) => Refused("create_request", 403)]_vars

\* A buyer has just been refused a fulfillment that names an existing request,
\* item, evidence and version.
C10_Witness ==
    /\ resp = Response("fulfill_request_item", 403, "Requires factory role")
    /\ Len(request_items) > 0
    /\ Len(evidence) > 0

\* The header carries no bearer token, or a token that is not on record.
Unauthenticated(h) == h = NoAuth \/ h \notin DOMAIN auth_tokens

\* C11: every operation other than login, called with no bearer token or with
\* a token that is not on record, ends with 401 whatever its other arguments
\* (so before any role or ownership check) and changes no table.
C11_UnauthenticatedRefused ==
    [][\A h \in AuthHeaders :
          Unauthenticated(h) =>
             /\ StepOf("create_evidence") =>
                   \A d \in DocTypes :
                      create_evidence(h, d) => Refused("create_evidence", 401)
             /\ StepOf("add_evidence_version") =>
                   \A e \in EvidenceIds :
                      AddVersionCall(h, e) => Refused("add_evidence_version", 401)
             /\ StepOf("create_request") =>
                   \A f \in Factories, l \in ItemLists :
                      create_request(h, f, l) => Refused("create_request", 401)
             /\ StepOf("get_factory_requests") =>
                   (get_factory_requests(h) => Refused("get_factory_requests", 401))
             /\ StepOf("fulfill_request_item") =>
                   \A r \in RequestIds, i \in ItemIds, e \in EvidenceIds,
                      v \in VersionIds :
                      FulfillCall(h, r, i, e, v) =>
                         Refused("fulfill_request_item", 401)
             /\ StepOf("get_audit_log") =>
                   \A l \in Limits :
                      get_audit_log(h, l) =>
                         Refused("get_audit_log", 401) /\ resp'.entries = <<>>]_vars

\* A fulfilment that names an existing item and evidence has just been refused
\* for a token that is not on record.
C11_Witness ==
    /\ resp = Response("fulfill_request_item", 401, "Invalid token")
    /\ Len(request_items) > 0
    /\ Len(evidence) > 0

\* C12: the audit log is append-only: every step leaves every record written
\* so far in place and unchanged, and the record ids are strictly increasing
\* in the order of appending.
C12_AuditAppendOnly ==
    /\ [](\A j, k \in DOMAIN audit_log : j < k => audit_log[j].id < audit_log[k].id)
    /\ [][/\ Len(audit_log') >= Len(audit_log)
           /\ SubSeq(audit_log', 1, Len(audit_log)) = audit_log]_vars

\* The log is full and a call has just failed.
C12_Witness ==
    /\ Len(audit_log) = MaxAudit
    /\ resp.code \in {400, 401, 403, 404}

\* The most recent limit records of the log, newest first: the reverse of the
\* order of appending, cut after limit records.
MostRecentFirst(log, limit) ==
    LET n == Len(log)
        m == IF limit >= n THEN n ELSE limit
    IN  [p \in 1..m |-> AuditEntry(log[n + 1 - p])]

\* C13: GET /audit with a limit >= 0, called by any identity, returns the
\* most recent limit records (all when fewer exist) in the reverse of the
\* order of appending, also when records carry the same timestamp, and never
\* more than limit records.
C13_AuditListMostRecentFirst ==
    [][\A h \in AuthHeaders, l \in Limits :
          (l >= 0 /\ get_current_user(h).code = 200 /\ get_audit_log(h, l)) =>
             /\ resp'.code = 200
             /\ resp'.entries = MostRecentFirst(audit_log, l)
             /\ Len(resp'.entries) <= l]_vars

\* The last record of a non-empty list.
Last(seq) == seq[Len(seq)]

\* C14: create_request by a buyer appends, in one step, one request with
\* status 'pending', the given factory and the calling buyer, and one item per
\* entry of the list, each 'pending', of the entry's docType and with no
\* evidence; it returns the ids of exactly these items and appends exactly
\* one CREATE_REQUEST audit record, for the request, whose itemCount is the
\* number of items; nothing else changes.
C14_CreateRequestBatch ==
    [][StepOf("create_request") =>
          \A h \in AuthHeaders, f \in Factories, l \in ItemLists :
             (IsIdentity(h, BUYER) /\ create_request(h, f, l)) =>
                LET request_id == Len(requests) + 1
                    n == Len(request_items)
                IN  /\ resp'.code = 200
                    /\ requests' = Append(requests, Last(requests'))
                    /\ Last(requests') = [buyer_id |-> get_current_user(h).userId,
                                          factory_id |-> f, status |-> "pending"]
                    /\ Len(request_items') = n + Len(l)
                    /\ SubSeq(request_items', 1, n) = request_items
                    /\ \A i \in 1..Len(l) :
                          request_items'[n + i] =
                             [request_id |-> request_id, doc_type |-> l[i].docType,
                              status |-> "pending", evidence_id |-> NoId,
                              version_id |-> NoId, fulfilled_at |-> NULL]
                    /\ resp'.body = (n + 1)..(n + Len(l))
                    /\ Cardinality(resp'.body) = Len(l)
                    /\ audit_log' = Append(audit_log, Last(audit_log'))
                    /\ Last(audit_log').action = "CREATE_REQUEST"
                    /\ Last(audit_log').object_id = ObjectId("R", request_id)
                    /\ Last(audit_log').metadata.itemCount = Len(l)
                    /\ UNCHANGED <<auth_tokens, evidence, evidence_versions>>]_vars

\* A buyer has just created a request of MaxItems items.
C14_Witness ==
    /\ resp.op = "create_request"
    /\ resp.code = 200
    /\ Cardinality(resp.body) = MaxItems
    /\ Len(request_items) = MaxItems

\* C15: a successful fulfill_request_item (its write transaction) sets the
\* item's status to 'fulfilled' and records the given evidenceId and
\* versionId on it, leaves every other item as it was, and in the same step
\* leaves the request 'completed' exactly when every other item of the
\* request was fulfilled already, that is when the item was the last one
\* open; so the first fulfilment of a single-item request gives item
\* 'fulfilled' and request 'completed'.
C15_FulfillSetsItemAndStatus ==
    [][\A w \in Workers :
          FulfillWrite(w) =>
             LET c == inflight[w]
                 r == c.request_id
                 i == c.item_id
             IN  /\ resp' = Response("fulfill_request_item", 200, "")
                 /\ request_items'[i].status = "fulfilled"
                 /\ request_items'[i].evidence_id = c.evidenceId
                 /\ request_items'[i].version_id = c.versionId
                 /\ DOMAIN request_items' = DOMAIN request_items
                 /\ \A j \in DOMAIN request_items \ {i} :
                       request_items'[j] = request_items[j]
                 /\ requests'[r].status = "completed" <=>
                       \A j \in ItemsOfRequest(r) \ {i} :
                          request_items[j].status = "fulfilled"
                 /\ (ItemsOfRequest(r) = {i}) => requests'[r].status = "completed"
                 /\ \A q \in DOMAIN requests \ {r} : requests'[q] = requests[q]]_vars

\* The second item of a two-item request has just been fulfilled and the
\* request is completed.
C15_Witness ==
    /\ resp = Response("fulfill_request_item", 200, "")
    /\ \E r \in DOMAIN requests :
          /\ Cardinality(ItemsOfRequest(r)) = 2
          /\ requests[r].status = "completed"
          /\ \A j \in ItemsOfRequest(r) : request_items[j].status = "fulfilled"

\* C16: a request's status never regresses: no step takes a request from
\* 'completed' to another status.
C16_CompletedStays ==
    [][\A r \in DOMAIN requests :
          requests[r].status = "completed" =>
             r \in DOMAIN requests' /\ requests'[r].status = "completed"]_vars

\* A request was completed and another request has been created after it.
C16_Witness ==
    /\ Len(requests) = 2
    /\ requests[1].status = "completed"
    /\ requests[2].status = "pending"
    /\ \E k \in DOMAIN audit_log :
          /\ audit_log[k].action = "FULFILL_ITEM"
          /\ audit_log[k].metadata.requestId = 1
    /\ Last(audit_log).action = "CREATE_REQUEST"

\* C17: no item is ever un-fulfilled: no step takes an item from 'fulfilled'
\* to another status, or removes it.
C17_FulfilledStays ==
    [][\A i \in DOMAIN request_items :
          request_items[i].status = "fulfilled" =>
             i \in DOMAIN request_items' /\ request_items'[i].status = "fulfilled"]_vars

\* An item that was fulfilled has just been fulfilled a second time and is
\* still fulfilled.
C17_Witness ==
    /\ resp = Response("fulfill_request_item", 200, "")
    /\ \E j, k \in DOMAIN audit_log :
          /\ j < k
          /\ audit_log[j].action = "FULFILL_ITEM"
          /\ audit_log[k].action = "FULFILL_ITEM"
          /\ audit_log[j].object_id = audit_log[k].object_id
          /\ audit_log[k].metadata.previousStatus = "fulfilled"
    /\ \A i \in DOMAIN request_items : request_items[i].status = "fulfilled"

\* Worker w is between the reads and the write of a fulfilment of item i of
\* request r.
Fulfilling(w, r, i) ==
    /\ inflight[w].op = "fulfill_request_item"
    /\ inflight[w].request_id = r
    /\ inflight[w].item_id = i

\* C18: fulfilments of different items of one request that overlap do not
\* break the status: whenever every item of a request (that has items) is
\* fulfilled the request is 'completed', between and after the commits, and
\* the commit of a fulfilment that finds every other item of the request
\* fulfilled, by whichever call and however the calls interleaved, leaves
\* the request 'completed'.
C18_ConcurrentFulfillCompletes ==
    /\ [](\A r \in DOMAIN requests :
             (/\ ItemsOfRequest(r) # {}
              /\ \A j \in ItemsOfRequest(r) : request_items[j].status = "fulfilled")
                => requests[r].status = "completed")
    /\ [][\A w \in Workers, r \in DOMAIN requests, i \in DOMAIN request_items :
             (/\ Fulfilling(w, r, i)
              /\ FulfillWrite(w)
              /\ \A j \in ItemsOfRequest(r) \ {i} :
                    request_items[j].status = "fulfilled")
                => /\ requests'[r].status = "completed"
                   /\ \A j \in ItemsOfRequest(r) :
                         request_items'[j].status = "fulfilled"]_vars

\* Two fulfilments of the two pending items of a request overlapped: the
\* first has just committed (its response is in the slot, so nothing has
\* started since), the request is still pending, and the second, which read
\* its item as pending, is still to write.
C18_Witness ==
    /\ resp = Response("fulfill_request_item", 200, "")
    /\ \E w \in Workers, r \in DOMAIN requests, i \in DOMAIN request_items :
          /\ Fulfilling(w, r, i)
          /\ inflight[w].previous_status = "pending"
          /\ request_items[i].status = "pending"
          /\ Cardinality(ItemsOfRequest(r)) = 2
          /\ \A j \in ItemsOfRequest(r) \ {i} : request_items[j].status = "fulfilled"
          /\ requests[r].status = "pending"

\* The checks in the order the claim gives, for a caller of factory F: the
\* code of the first that fails, 200 when none does.
FirstFailingCheck(F, r, i, e, v) ==
    CASE r \notin DOMAIN requests -> 404
      [] r \in DOMAIN requests /\ requests[r].factory_id # F -> 403
      [] OTHER ->
           IF i \notin ItemsOfRequest(r) THEN 404
           ELSE IF e \notin DOMAIN evidence THEN 404
           ELSE IF evidence[e].factory_id # F THEN 403
           ELSE IF v \notin VersionRowsOf(e) THEN 404
           ELSE 200

\* C19: fulfill_request_item by a factory identity reports the first check
\* that fails in the order request exists (404), request of the caller's
\* factory (403), item in that request (404), evidence exists (404), evidence
\* of the caller's factory (403), version of that evidence (404), whatever
\* the later arguments are; a call is taken up only when none fails, and an
\* error that is answered is the outcome of the checks of some call.
C19_FulfillCheckOrder ==
    /\ [](resp = NoResponse =>
             \A h \in AuthHeaders :
                IsIdentity(h, FACTORY) =>
                   \A r \in RequestIds, i \in ItemIds, e \in EvidenceIds,
                      v \in VersionIds :
                      FulfillResult(h, r, i, e, v).code =
                         FirstFailingCheck(get_current_user(h).factoryId, r, i, e, v))
    /\ [][/\ AnswersError("fulfill_request_item") =>
                \E h \in AuthHeaders, r \in RequestIds, i \in ItemIds,
                   e \in EvidenceIds, v \in VersionIds :
                   /\ FulfillResult(h, r, i, e, v).code = resp'.code
                   /\ FulfillResult(h, r, i, e, v).detail = resp'.detail
          /\ inflight' # inflight =>
                (\A h \in AuthHeaders :
                    IsIdentity(h, FACTORY) =>
                       \A r \in RequestIds, i \in ItemIds, e \in EvidenceIds,
                          v \in VersionIds :
                          FulfillTakenUp(h, r, i, e, v) =>
                             FirstFailingCheck(get_current_user(h).factoryId,
                                               r, i, e, v) = 200)]_vars

\* A factory has just been told that the item is missing, in a call on its
\* own request that could only name evidence of another factory: every
\* evidence id is taken and none belongs to the factory of any request.
C19_Witness ==
    /\ resp = Response("fulfill_request_item", 404, "Request item not found")
    /\ Len(evidence) = MaxEvidence
    /\ \A r \in DOMAIN requests, e \in DOMAIN evidence :
          requests[r].factory_id # evidence[e].factory_id

\* The version numbers of evidence e, as a set.
VersionNumbersOf(e) == {evidence_versions[v].version_number : v \in VersionRowsOf(e)}

\* C20: create_evidence by a factory appends the evidence, owned by the
\* caller's factory, and exactly one version of it, numbered 1; the commit
\* of a successful add_evidence_version on an evidence whose versions are
\* numbered 1..N appends exactly one version, numbered N+1, and leaves the
\* existing versions, the evidence rows, the requests and the items as they
\* were; add_evidence_version on an evidence id that does not exist ends with
\* 404 and changes nothing.
C20_EvidenceVersionFrame ==
    [][/\ StepOf("create_evidence") =>
             \A h \in AuthHeaders, d \in DocTypes :
                (IsIdentity(h, FACTORY) /\ create_evidence(h, d)) =>
                   /\ resp'.code = 200
                   /\ evidence' = Append(evidence,
                          [factory_id |-> get_current_user(h).factoryId,
                           doc_type |-> d])
                   /\ evidence_versions' = Append(evidence_versions,
                          [evidence_id |-> Len(evidence'), version_number |-> 1])
       /\ \A w \in Workers :
             AddVersionWrite(w) =>
                LET e == inflight[w].evidence_id
                    N == Cardinality(VersionRowsOf(e))
                IN  VersionNumbersOf(e) = 1..N =>
                       /\ resp'.code = 200
                       /\ evidence_versions' = Append(evidence_versions,
                              [evidence_id |-> e, version_number |-> N + 1])
                       /\ UNCHANGED <<evidence, requests, request_items>>
       /\ StepOf("add_evidence_version") =>
             \A h \in AuthHeaders, e \in EvidenceIds :
                (/\ IsIdentity(h, FACTORY)
                 /\ e \notin DOMAIN evidence
                 /\ AddVersionCall(h, e)) =>
                   Refused("add_evidence_version", 404)]_vars

\* The answer of get_current_user for a token whose expiry has passed.
ExpiredAnswer == [code |-> 401, detail |-> "Token expired"]

\* C21: sessions are non-extending: a login gives its new session the expiry
\* "time of the login plus TOKEN_LIFETIME"; no step removes a session or
\* changes the expiry of one; the clock never goes back; so a token that
\* get_current_user refuses as expired is refused as expired after every
\* later step, a later login included.
C21_SessionsNonExtending ==
    [][/\ now' >= now
       /\ \A t \in DOMAIN auth_tokens :
             /\ t \in DOMAIN auth_tokens'
             /\ auth_tokens'[t] = auth_tokens[t]
       /\ \A t \in (DOMAIN auth_tokens') \ (DOMAIN auth_tokens) :
             auth_tokens'[t].expires_at = now + TOKEN_LIFETIME
       /\ \A h \in AuthHeaders :
             (get_current_user(h) = ExpiredAnswer) =>
                (get_current_user(h) = ExpiredAnswer)']_vars

\* C21 witness: a call made with an expired token has just been refused as
\* expired although the same user logged in again after that token's expiry
\* and holds a live session.
C21_Witness ==
    /\ resp.code = 401
    /\ resp.detail = "Token expired"
    /\ \E t1, t2 \in DOMAIN auth_tokens :
          /\ get_current_user(t1) = ExpiredAnswer
          /\ auth_tokens[t2].user_id = auth_tokens[t1].user_id
          /\ auth_tokens[t2].created_at > auth_tokens[t1].expires_at
          /\ get_current_user(t2).code = 200

\* C22: fulfill_request_item compares no doc_type: a call by a factory whose
\* request, item, evidence and version checks all pass is never refused,
\* whatever the item's doc_type and the evidence's doc_type are, equal or
\* not; and its commit answers 200 and attaches the evidence and the version
\* to the item.
C22_NoDocTypeMatch ==
    /\ [](resp = NoResponse =>
            \A h \in AuthHeaders, r \in RequestIds, i \in ItemIds,
               e \in EvidenceIds, v \in VersionIds :
               (/\ IsIdentity(h, FACTORY)
                /\ FirstFailingCheck(get_current_user(h).factoryId, r, i, e, v) = 200) =>
                  FulfillResult(h, r, i, e, v).code = 200)
    /\ [][\A w \in Workers :
             FulfillWrite(w) =>
                /\ resp'.op = "fulfill_request_item"
                /\ resp'.code = 200
                /\ request_items'[inflight[w].item_id].status = "fulfilled"
                /\ request_items'[inflight[w].item_id].evidence_id = inflight[w].evidenceId
                /\ request_items'[inflight[w].item_id].version_id = inflight[w].versionId
                /\ request_items'[inflight[w].item_id].doc_type =
                      request_items[inflight[w].item_id].doc_type
                /\ evidence' = evidence]_vars

\* C22 witness: a fulfilment has just succeeded on an item whose doc_type
\* differs from the doc_type of the evidence attached to it, while another
\* item is fulfilled with an evidence of its own doc_type.
C22_Witness ==
    /\ resp = Response("fulfill_request_item", 200, "")
    /\ \E i, j \in DOMAIN request_items :
          /\ Last(audit_log).object_id = ObjectId("I", i)
          /\ request_items[i].status = "fulfilled"
          /\ request_items[i].doc_type # evidence[request_items[i].evidence_id].doc_type
          /\ request_items[j].status = "fulfilled"
          /\ request_items[j].doc_type = evidence[request_items[j].evidence_id].doc_type

IsNull(x) == ToString(x) = ToString(NULL)

\* C24: in every reachable state an item's status is 'pending' or
\* 'fulfilled'; a pending item has no evidence id, no version id and no
\* fulfilled_at; a fulfilled item has all three.
C24_StatusAgreesWithAttachment ==
    \A i \in DOMAIN request_items :
       /\ request_items[i].status \in {"pending", "fulfilled"}
       /\ request_items[i].status = "pending" =>
             /\ request_items[i].evidence_id = NoId
             /\ request_items[i].version_id = NoId
             /\ IsNull(request_items[i].fulfilled_at)
       /\ request_items[i].status = "fulfilled" =>
             /\ request_items[i].evidence_id # NoId
             /\ request_items[i].version_id # NoId
             /\ ~IsNull(request_items[i].fulfilled_at)

\* C24 witness: a fulfilment has just been committed in a request that has a
\* fulfilled item and a pending item side by side.
C24_Witness ==
    /\ resp = Response("fulfill_request_item", 200, "")
    /\ \E i, j \in DOMAIN request_items :
          /\ request_items[i].request_id = request_items[j].request_id
          /\ request_items[i].status = "fulfilled"
          /\ request_items[j].status = "pending"

\* The read operations.
ReadOps == {"get_factory_requests", "get_audit_log"}

\* C25: a step that answers GET /factory/requests or GET /audit, with 200
\* or with an error, leaves evidence, versions, requests, items, sessions and
\* the audit log as they were; so does every step in which the session
\* lookup refuses a call with 401, whatever the operation, and every step in
\* which a call has passed the lookup and its checks and has not written yet.
C25_ReadsChangeNothing ==
    [][/\ (resp' # resp /\ resp'.op \in ReadOps) =>
             /\ UNCHANGED db
             /\ Len(audit_log') = Len(audit_log)
       /\ (resp' # resp /\ resp'.code = 401) => UNCHANGED db
       /\ (resp' = resp /\ inflight' # inflight) => UNCHANGED db]_vars

\* C25 witness: GET /factory/requests has just answered 200 with a request
\* in its body, over a database that holds sessions, a request and several
\* audit records.
C25_Witness ==
    /\ resp.op = "get_factory_requests"
    /\ resp.code = 200
    /\ resp.body # NoBody
    /\ Len(auth_tokens) >= 2
    /\ Len(audit_log) >= 3

\* C26: in every reachable state every evidence has a version numbered 1
\* and every version names an existing evidence; and no step removes or
\* changes an evidence row or a version row: both tables only grow at the
\* end.
C26_EvidenceHasVersions ==
    /\ [](/\ \A e \in DOMAIN evidence :
               \E v \in DOMAIN evidence_versions :
                  /\ evidence_versions[v].evidence_id = e
                  /\ evidence_versions[v].version_number = 1
          /\ \A v \in DOMAIN evidence_versions :
               evidence_versions[v].evidence_id \in DOMAIN evidence)
    /\ [][/\ Len(evidence') >= Len(evidence)
           /\ \A e \in DOMAIN evidence : evidence'[e] = evidence[e]
           /\ Len(evidence_versions') >= Len(evidence_versions)
           /\ \A v \in DOMAIN evidence_versions :
                 evidence_versions'[v] = evidence_versions[v]]_vars

\* C26 witness: a version has just been added to an evidence that now has
\* its version 1 and at least one more, after an add_evidence_version call
\* left its record in the audit log.
C26_Witness ==
    /\ resp = Response("add_evidence_version", 200, "")
    /\ \E e \in DOMAIN evidence : Cardinality(VersionRowsOf(e)) >= 2
    /\ Last(audit_log).action = "ADD_VERSION"
====
